---- MODULE Spec2Model ----
(***************************************************************************)
(* Snapshot-sequential training / evaluation protocol of the two           *)
(* orchestrators of the repository:                                        *)
(*   dtdg_egcno_original.py  (EvolveGCN-O: runs, epochs, train, val,       *)
(*                            conditional test, patience)                  *)
(*   dtdg_gclstm.py          (GC-LSTM: epochs, train, val)                 *)
(* Tensors are abstracted to what the protocol decides: which snapshot an  *)
(* encoder output was produced from and whether it is gradient-tracked.    *)
(* Metrics (means of MRR values, which lie in (0,1]) are abstracted to the *)
(* positive integers 1..MaxMetric with the same order.                     *)
(***************************************************************************)
EXTENDS Integers, Sequences, FiniteSets, TLC

\* ---------------------------------------------------------------- bounds
MaxEpoch  == 4    \* largest args.max_epoch explored
MaxRuns   == 2    \* args.num_runs
MaxSnap   == 2    \* largest number of snapshots of a split
MaxMetric == 2    \* number of distinct metric values
MaxEdges  == 2    \* largest number of positive edges of a snapshot

\* num_epochs of the GC-LSTM script
num_epochs == 200

Min(a, b) == IF a <= b THEN a ELSE b

\* values of a mean of MRR values, in increasing order
Metrics        == 1..MaxMetric
\* values of args.max_epoch
EpochValues    == 1..MaxEpoch
\* values of args.patience: small ones and the patience of the
\* specification's end-to-end scenario
PatienceValues == (1..(MaxEpoch - 1)) \cup {100}

VARIABLES
  variant,       \* which orchestrator runs: "egcno" or "gclstm"
  args,          \* run configuration: max_epoch, patience, num_runs
  train_data,    \* [time_length, edge_attr]
  val_data,      \* [n (number of snapshots), edge_attr]
  test_data,     \* [n (number of snapshots), edge_attr]
  original_edges,\* per split, the 2 x N array of every snapshot, in key order
  pc,            \* position in the script
  run,           \* index of the current run (seed - args.seed)
  epoch,
  snapshot_idx,  \* position in the snapshot loop in progress
  h, c,          \* carried encoder state
  best_val, best_test, best_epoch,
  val_metrics,
  perf_list,     \* results of the pass in progress: key idx, and the query
  perf_idx,
  trainLog,      \* encoder feeds and scored snapshots of this epoch's training
  evalLog,       \* score / advance events of the evaluation pass in progress
  valHist,       \* validation metric of every epoch of this run so far
  testEpochs,    \* epochs of this run in which the test evaluation was entered
  testCalls,     \* number of times this run entered the test evaluation
  lastTest,      \* epoch and metric of this run's last completed test pass
  raised         \* split whose edge_attr raised NotImplementedError, or "none"

vars == << variant, args, train_data, val_data, test_data, original_edges,
           pc, run, epoch, snapshot_idx, h, c, best_val, best_test,
           best_epoch, val_metrics, perf_list, perf_idx,
           trainLog, evalLog, valHist, testEpochs, testCalls, lastTest,
           raised >>

config == << variant, args, train_data, val_data, test_data,
             original_edges >>

\* ------------------------------------------------------- tensors, keys
\* h = None / c = None
NoState == [grad |-> FALSE, src |-> << "none", 0 >>]

\* output of a forward call of the encoder on the edges of snapshot s: the
\* parameters require grad and no torch.no_grad() is active anywhere
model(s) == [grad |-> TRUE, src |-> s]

\* tensor.detach()
detach(x) == [x EXCEPT !.grad = FALSE]

\* train snapshots are snapshot_list[0 .. time_length-1]; the keys of the
\* val and test dictionaries continue the time axis
ts_min_val  == train_data.time_length
ts_min_test == train_data.time_length + val_data.n

ts_min(split) == IF split = "val" THEN ts_min_val ELSE ts_min_test

split_data(split) == IF split = "val" THEN val_data ELSE test_data

\* ------------------------------------------------------------ training
\* index of the snapshot fed to the encoder at training step t
FeedIndexSelf(t) == t

FeedIndex(t) == IF t = 0 THEN t ELSE t - 1

\* index of the snapshot whose edges the decoder scores as positives
ScoredIndex(v, t) == IF v = "egcno" THEN t ELSE FeedIndex(t)

\* ---------------------------------------------------------- evaluation
ScoreEv(split, t, st) ==
  [op |-> "score", split |-> split, t |-> t, fed |-> t,
   grad |-> st.grad, src |-> st.src]

AdvanceEv(split, t, fed, st) ==
  [op |-> "advance", split |-> split, t |-> t, fed |-> fed,
   grad |-> st.grad, src |-> st.src]

\* the loader's original edges of a snapshot with n positives: row 1 holds
\* the sources 0 .. n-1, row 2 the destinations n .. 2n-1
EdgeArray(n) ==
  << [i \in 1..n |-> i - 1], [i \in 1..n |-> n + i - 1] >>

\* pos_index.shape[0], pos_index.shape[1]
Shape0(a) == Len(a)
Shape1(a) == Len(a[1])

\* pos_index of the snapshot at position k (from 0) of a split
PosIndex(split, k) == original_edges[split][k + 1]

\* the (pos_src, pos_dst) pairs of the EvolveGCN-O query loop:
\* for i in range(shape[1]): pos_index[0][i], pos_index[1][i]
EgcnoQueries(a) ==
  [i \in 1..Shape1(a) |-> [src |-> a[1][i], dst |-> a[2][i]]]

\* the (pos_src, pos_dst) pairs of the GC-LSTM query loop:
\* for i in range(shape[0]): pos_index[i][0], pos_index[i][1]
GclstmQueries(a) ==
  [i \in 1..Shape0(a) |-> [src |-> a[i][1], dst |-> a[i][2]]]

\* pos_index[i][1] is out of range: IndexError
GclstmIndexError(a) == Shape1(a) < 2

\* perf_list[perf_idx] = ...; perf_idx += 1, once per query (query_batch on
\* one-element arrays returns one negative batch)
StoreResults(perf, idx, qs, t) ==
  perf \cup {[idx |-> idx + i - 1, src |-> qs[i].src, dst |-> qs[i].dst,
              t |-> t] : i \in 1..Len(qs)}

\* ------------------------------------------------ best tracking, patience
ImprovedOrEqual(v, bv) == v >= bv

Improved(v, bv) == v > bv

AlwaysTake(v, bv) == v

NewBestVal(v, bv) == IF Improved(v, bv) THEN v ELSE bv

PatienceOnly(e, be, p) == (e - be) >= p

PatienceReset(e, be, p) == (e - be) >= 1 /\ e > 1

StopCond(e, be, p) == (e - be) >= p /\ e > 1

\* no test pass completed yet in this run
NoTest == [epoch |-> -1, metric |-> 0]

\* ---------------------------------------------------------------- Init
\* the state before the first epoch, whatever the configuration
InitState ==
  /\ variant \in {"egcno", "gclstm"}
  /\ train_data \in [time_length : 1..MaxSnap, edge_attr : BOOLEAN]
  /\ val_data \in [n : 1..MaxSnap, edge_attr : BOOLEAN]
  /\ test_data \in [n : 1..MaxSnap, edge_attr : BOOLEAN]
  /\ variant = "gclstm" => test_data = [n |-> 1, edge_attr |-> FALSE] \* unused
  /\ pc = "epoch"
  /\ run = 0
  /\ epoch = 0
  /\ snapshot_idx = 0
  /\ h = NoState
  /\ c = NoState
  /\ best_val = 0
  /\ best_test = 0
  /\ best_epoch = 0
  /\ val_metrics = 0
  /\ perf_list = {}
  /\ perf_idx = 0
  /\ trainLog = << >>
  /\ evalLog = << >>
  /\ valHist = << >>
  /\ testEpochs = {}
  /\ testCalls = 0
  /\ lastTest = NoTest
  /\ raised = "none"

\* every evaluation snapshot has MaxEdges positive edges
Init ==
  /\ InitState
  /\ IF variant = "egcno"
       THEN args \in [max_epoch : EpochValues, patience : PatienceValues,
                      num_runs : {MaxRuns}]
       \* GC-LSTM: fixed num_epochs (capped), no patience, no run loop
       ELSE args = [max_epoch |-> Min(num_epochs, MaxEpoch), patience |-> 1,
                    num_runs |-> 1]
  /\ original_edges =
       [val  |-> [k \in 1..val_data.n  |-> EdgeArray(MaxEdges)],
        test |-> [k \in 1..test_data.n |-> EdgeArray(MaxEdges)]]

\* ------------------------------------------------------------- actions
\* top of the epoch loop: optimizer.zero_grad(), model.train(), h = None
StartEpoch ==
  /\ pc = "epoch"
  /\ epoch < args.max_epoch
  /\ pc' = "train"
  /\ snapshot_idx' = 0
  /\ h' = NoState
  /\ c' = NoState
  /\ trainLog' = << >>
  /\ UNCHANGED << config, lastTest, perf_list, perf_idx, run, epoch, best_val, best_test, best_epoch,
                  val_metrics, evalLog, valHist, testEpochs, testCalls, raised >>

\* one iteration of the training snapshot loop
TrainStep ==
  /\ pc = "train"
  /\ snapshot_idx < train_data.time_length
  /\ IF train_data.edge_attr
       THEN /\ pc' = "error"
            /\ raised' = "train"
            /\ UNCHANGED << snapshot_idx, h, c, trainLog >>
       ELSE /\ h' = model(<< "train", FeedIndex(snapshot_idx) >>)
            /\ c' = IF variant = "gclstm"
                      THEN model(<< "train", FeedIndex(snapshot_idx) >>)
                      ELSE c
            /\ trainLog' = Append(trainLog,
                 [t |-> snapshot_idx,
                  fed |-> FeedIndex(snapshot_idx),
                  scored |-> ScoredIndex(variant, snapshot_idx)])
            /\ snapshot_idx' = snapshot_idx + 1
            /\ UNCHANGED << pc, raised >>
  /\ UNCHANGED << config, lastTest, perf_list, perf_idx, run, epoch, best_val, best_test, best_epoch,
                  val_metrics, evalLog, valHist, testEpochs, testCalls >>

\* after the loop: backward, optimizer step, model.eval(), the validation
\* negatives are loaded, perf_list is emptied and the state is detached
TrainEnd ==
  /\ pc = "train"
  /\ snapshot_idx = train_data.time_length
  /\ pc' = "val"
  /\ snapshot_idx' = 0
  /\ evalLog' = << >>
  /\ perf_list' = {}
  /\ perf_idx' = 0
  /\ h' = detach(h)
  /\ c' = IF variant = "gclstm" THEN detach(c) ELSE c
  /\ UNCHANGED << config, lastTest, run, epoch, best_val, best_test, best_epoch,
                  val_metrics, trainLog, valHist, testEpochs, testCalls, raised >>

\* an evaluation iteration that advances the encoder before the positives
\* are scored
EgcnoEvalStepAdvanceFirst(split, keep_detached) ==
  LET t   == ts_min(split) + snapshot_idx
      out == IF keep_detached THEN detach(model(<< split, t >>))
                              ELSE model(<< split, t >>)
      qs  == EgcnoQueries(PosIndex(split, snapshot_idx))
  IN /\ perf_list' = StoreResults(perf_list, perf_idx, qs, t)
     /\ perf_idx' = perf_idx + Len(qs)
     /\ IF split_data(split).edge_attr
       THEN /\ evalLog' = evalLog
            /\ pc' = "error"
            /\ raised' = split
            /\ UNCHANGED << snapshot_idx, h >>
       ELSE /\ h' = out
            /\ evalLog' = evalLog \o << AdvanceEv(split, t, t, out),
                                        ScoreEv(split, t, out) >>
            /\ snapshot_idx' = snapshot_idx + 1
            /\ UNCHANGED << pc, raised >>

\* one iteration of an EvolveGCN-O evaluation loop over snapshot key t of
\* `split`: all positives are scored with the carried state, then the
\* edge_attr check, then the encoder is advanced with the snapshot's edges.
\* keep_detached = TRUE when the encoder output is detached (validation),
\* FALSE when it is assigned as returned (test).
EgcnoEvalStep(split, keep_detached) ==
  LET t      == ts_min(split) + snapshot_idx
      scored == Append(evalLog, ScoreEv(split, t, h))
      out    == IF keep_detached THEN detach(model(<< split, t >>))
                                 ELSE model(<< split, t >>)
      qs     == EgcnoQueries(PosIndex(split, snapshot_idx))
  IN /\ perf_list' = StoreResults(perf_list, perf_idx, qs, t)
     /\ perf_idx' = perf_idx + Len(qs)
     /\ IF split_data(split).edge_attr
       THEN /\ evalLog' = scored
            /\ pc' = "error"
            /\ raised' = split
            /\ UNCHANGED << snapshot_idx, h >>
       ELSE /\ h' = out
            /\ evalLog' = Append(scored, AdvanceEv(split, t, t, out))
            /\ snapshot_idx' = snapshot_idx + 1
            /\ UNCHANGED << pc, raised >>

EgcnoValStep ==
  /\ variant = "egcno"
  /\ pc = "val"
  /\ snapshot_idx < val_data.n
  /\ EgcnoEvalStep("val", TRUE)
  /\ UNCHANGED << config, lastTest, run, epoch, c, best_val, best_test, best_epoch,
                  val_metrics, trainLog, valHist, testEpochs, testCalls >>

EgcnoTestStep ==
  /\ variant = "egcno"
  /\ pc = "test"
  /\ snapshot_idx < test_data.n
  /\ EgcnoEvalStep("test", FALSE)
  /\ UNCHANGED << config, lastTest, run, epoch, c, best_val, best_test, best_epoch,
                  val_metrics, trainLog, valHist, testEpochs, testCalls >>

\* one iteration of the GC-LSTM validation loop: past the first key the
\* encoder is advanced with the previous snapshot's edges (after the
\* edge_attr check), then the positives of the snapshot are scored
GclstmValStep ==
  /\ variant = "gclstm"
  /\ pc = "val"
  /\ snapshot_idx < val_data.n
  /\ LET t     == ts_min_val + snapshot_idx
         out   == model(<< "val", t - 1 >>)
         a     == PosIndex("val", snapshot_idx)
         first == ~(t > ts_min_val)
         \* the state and the log after the advance, if there is one
         adv   == IF first THEN evalLog
                           ELSE Append(evalLog, AdvanceEv("val", t, t - 1, out))
         st    == IF first THEN h ELSE out
     IN IF ~first /\ val_data.edge_attr
          THEN /\ pc' = "error"
               /\ raised' = "val"
               /\ UNCHANGED << snapshot_idx, h, c, evalLog, perf_list,
                               perf_idx >>
          ELSE /\ h' = st
               /\ c' = IF first THEN c ELSE out
               /\ IF GclstmIndexError(a)
                    THEN /\ pc' = "error"
                         /\ raised' = "index"
                         /\ evalLog' = adv
                         /\ UNCHANGED << snapshot_idx, perf_list, perf_idx >>
                    ELSE /\ evalLog' = Append(adv, ScoreEv("val", t, st))
                         /\ perf_list' = StoreResults(perf_list, perf_idx,
                                                      GclstmQueries(a), t)
                         /\ perf_idx' = perf_idx + Len(GclstmQueries(a))
                         /\ snapshot_idx' = snapshot_idx + 1
                         /\ UNCHANGED << pc, raised >>
  /\ UNCHANGED << config, lastTest, run, epoch, best_val, best_test, best_epoch,
                  val_metrics, trainLog, valHist, testEpochs, testCalls >>

\* EvolveGCN-O after the validation loop: the mean metric is compared with
\* best_val; on improvement best_val is set and the test pass is entered
\* (test negatives loaded, h detached, perf_list emptied)
EgcnoValEnd ==
  /\ variant = "egcno"
  /\ pc = "val"
  /\ snapshot_idx = val_data.n
  /\ \E v \in Metrics :
       /\ val_metrics' = v
       /\ valHist' = Append(valHist, v)
       /\ best_val' = NewBestVal(v, best_val)
       /\ IF Improved(v, best_val)
            THEN /\ pc' = "test"
                 /\ snapshot_idx' = 0
                 /\ h' = detach(h)
                 /\ evalLog' = << >>
                 /\ perf_list' = {}
                 /\ perf_idx' = 0
                 /\ testEpochs' = testEpochs \cup {epoch}
                 /\ testCalls' = testCalls + 1
                 /\ epoch' = epoch
            ELSE /\ pc' = "epoch"
                 /\ epoch' = epoch + 1
                 /\ UNCHANGED << snapshot_idx, h, evalLog, perf_list,
                                 perf_idx, testEpochs, testCalls >>
  /\ UNCHANGED << config, lastTest, run, c, best_test, best_epoch, trainLog, raised >>

\* GC-LSTM after the validation loop: the mean metric is printed
GclstmValEnd ==
  /\ variant = "gclstm"
  /\ pc = "val"
  /\ snapshot_idx = val_data.n
  /\ \E v \in Metrics :
       /\ val_metrics' = v
       /\ valHist' = Append(valHist, v)
  /\ pc' = "epoch"
  /\ epoch' = epoch + 1
  /\ UNCHANGED << config, lastTest, perf_list, perf_idx, run, snapshot_idx, h, c, best_val, best_test,
                  best_epoch, trainLog, evalLog, testEpochs, testCalls, raised >>

\* after the test loop: best_test = test_metrics, then the patience check
TestEnd ==
  /\ variant = "egcno"
  /\ pc = "test"
  /\ snapshot_idx = test_data.n
  /\ \E m \in Metrics :
       /\ best_test' = m
       /\ lastTest' = [epoch |-> epoch, metric |-> m]
  /\ pc' = "patience"
  /\ UNCHANGED << config, perf_list, perf_idx, run, epoch, snapshot_idx, h, c, best_val,
                  best_epoch, val_metrics, trainLog, evalLog, valHist,
                  testEpochs, testCalls, raised >>

\* patience check taken: best_epoch = epoch; break
EarlyStop ==
  /\ pc = "patience"
  /\ StopCond(epoch, best_epoch, args.patience)
  /\ best_epoch' = epoch
  /\ pc' = "stopped"
  /\ UNCHANGED << config, lastTest, perf_list, perf_idx, run, epoch, snapshot_idx, h, c, best_val,
                  best_test, val_metrics, trainLog, evalLog, valHist,
                  testEpochs, testCalls, raised >>

\* the patience check not taken, without the update of best_epoch
KeepRunningStale ==
  /\ pc = "patience"
  /\ ~StopCond(epoch, best_epoch, args.patience)
  /\ epoch' = epoch + 1
  /\ pc' = "epoch"
  /\ UNCHANGED << config, lastTest, perf_list, perf_idx, run, snapshot_idx,
                  h, c, best_val, best_test, best_epoch, val_metrics,
                  trainLog, evalLog, valHist, testEpochs, testCalls, raised >>

\* patience check not taken: best_epoch = epoch, next epoch
KeepRunning ==
  /\ pc = "patience"
  /\ ~StopCond(epoch, best_epoch, args.patience)
  /\ best_epoch' = epoch
  /\ epoch' = epoch + 1
  /\ pc' = "epoch"
  /\ UNCHANGED << config, lastTest, perf_list, perf_idx, run, snapshot_idx, h, c, best_val, best_test,
                  val_metrics, trainLog, evalLog, valHist, testEpochs, testCalls,
                  raised >>

\* the epoch loop is exhausted, or was left by break: the run summary is
\* printed
RunEnd ==
  /\ \/ pc = "stopped"
     \/ pc = "epoch" /\ epoch = args.max_epoch
  /\ pc' = "run_end"
  /\ UNCHANGED << config, lastTest, perf_list, perf_idx, run, epoch, snapshot_idx, h, c, best_val,
                  best_test, best_epoch, val_metrics, trainLog, evalLog,
                  valHist, testEpochs, testCalls, raised >>

\* next iteration of the seed loop: a fresh model and a fresh run record
NextRun ==
  /\ pc = "run_end"
  /\ run + 1 < args.num_runs
  /\ run' = run + 1
  /\ pc' = "epoch"
  /\ epoch' = 0
  /\ best_val' = 0
  /\ best_test' = 0
  /\ best_epoch' = 0
  /\ valHist' = << >>
  /\ testEpochs' = {}
  /\ testCalls' = 0
  /\ lastTest' = NoTest
  /\ UNCHANGED << config, perf_list, perf_idx, snapshot_idx, h, c, val_metrics, trainLog,
                  evalLog, raised >>

\* the script ends
Finish ==
  /\ pc = "run_end"
  /\ run + 1 = args.num_runs
  /\ pc' = "done"
  /\ UNCHANGED << config, lastTest, perf_list, perf_idx, run, epoch, snapshot_idx, h, c, best_val,
                  best_test, best_epoch, val_metrics, trainLog, evalLog,
                  valHist, testEpochs, testCalls, raised >>

Next ==
  \/ StartEpoch
  \/ TrainStep
  \/ TrainEnd
  \/ EgcnoValStep
  \/ EgcnoTestStep
  \/ GclstmValStep
  \/ EgcnoValEnd
  \/ GclstmValEnd
  \/ TestEnd
  \/ EarlyStop
  \/ KeepRunning
  \/ RunEnd
  \/ NextRun
  \/ Finish

Spec == Init /\ [][Next]_vars

\* One epoch of one run over splits without edge_attr, with every
\* evaluation snapshot's number of positive edges drawn from 1..MaxEdges
InitEdges ==
  /\ InitState
  /\ args = [max_epoch |-> Min(num_epochs, 1), patience |-> 1,
             num_runs |-> 1]
  /\ ~train_data.edge_attr
  /\ ~val_data.edge_attr
  /\ ~test_data.edge_attr
  /\ \E nv \in [1..val_data.n -> 1..MaxEdges] :
       \E nt \in [1..test_data.n -> 1..MaxEdges] :
         original_edges =
           [val  |-> [k \in 1..val_data.n  |-> EdgeArray(nv[k])],
            test |-> [k \in 1..test_data.n |-> EdgeArray(nt[k])]]

\* the steps of such an epoch (the early stop and the next run need more
\* than one epoch and one run)
NextEdges ==
  \/ StartEpoch
  \/ TrainStep
  \/ TrainEnd
  \/ EgcnoValStep
  \/ EgcnoTestStep
  \/ GclstmValStep
  \/ EgcnoValEnd
  \/ GclstmValEnd
  \/ TestEnd
  \/ KeepRunning
  \/ RunEnd
  \/ Finish

SpecEdges == InitEdges /\ [][NextEdges]_vars

\* ------------------------------------------------ history of the run
\* epochs are 0-based, valHist is 1-based: valHist[e + 1] is epoch e's metric
StrictImprovement(e) ==
  \A j \in 0..(e - 1) : valHist[e + 1] > valHist[j + 1]

ImprovingEpochs == {e \in 0..(Len(valHist) - 1) : StrictImprovement(e)}

SetMax(S) == CHOOSE x \in S : \A y \in S : y <= x

\* index of the last strictly improving epoch before epoch e, 0 if none
PrevImproving(e) ==
  LET S == {j \in ImprovingEpochs : j < e}
  IN IF S = {} THEN 0 ELSE SetMax(S)

\* the check the early stop is claimed to depend on, from the history alone
StopsAt(e) ==
  /\ e > 1
  /\ StrictImprovement(e)
  /\ e - PrevImproving(e) >= args.patience

\* the epoch loop was left by break
EarlyStopped ==
  /\ pc \in {"stopped", "run_end", "done"}
  /\ epoch < args.max_epoch

ValPassDone  == pc = "val" /\ snapshot_idx = val_data.n
TestPassDone == pc = "test" /\ snapshot_idx = test_data.n

\* ------------------------------------------------------------- claims

\* C1: in an EvolveGCN-O run the test evaluation is entered in an epoch if
\* and only if that epoch's validation metric strictly exceeds the metric of
\* every earlier epoch of the run, and the number of test passes equals the
\* number of strict-improvement epochs.
C1_TestIffStrictImprovement ==
  variant = "egcno" =>
    /\ \A e \in 0..(Len(valHist) - 1) :
         (e \in testEpochs) <=> StrictImprovement(e)
    /\ testEpochs \subseteq 0..(Len(valHist) - 1)
    /\ testCalls = Cardinality(ImprovingEpochs)

\* three epochs seen, the test evaluation entered in two of them only
C1_Witness ==
  /\ variant = "egcno"
  /\ Len(valHist) = 3
  /\ testCalls = 2
  /\ 1 \notin testEpochs

\* C2: in both training loops step t feeds the encoder snapshot t-1 (snapshot
\* 0 when t = 0), never snapshot t itself when t > 0, and the steps are taken
\* in increasing order of t; the state scored with is that encoder output.
C2_FeedShift ==
  /\ \A k \in 1..Len(trainLog) :
       /\ trainLog[k].t = k - 1
       /\ trainLog[k].fed = (IF k = 1 THEN 0 ELSE k - 2)
       /\ (k > 1 => trainLog[k].fed # trainLog[k].t)
  /\ (pc = "train" /\ snapshot_idx > 0) =>
       /\ Len(trainLog) = snapshot_idx
       /\ h = [grad |-> TRUE,
               src |-> << "train", trainLog[snapshot_idx].fed >>]

\* a training loop that has processed a snapshot t > 0
C2_Witness ==
  /\ pc = "train"
  /\ snapshot_idx = 2
  /\ Len(trainLog) = 2
  /\ trainLog[2].fed = 0

\* C3: at the end of every validation pass the carried state h (and c for
\* GC-LSTM) is not gradient-tracked.
C3_DetachedAfterValidation ==
  ValPassDone =>
    /\ ~h.grad
    /\ (variant = "gclstm" => ~c.grad)

\* C4: in every validation and test pass the state used to score a query,
\* and the state handed to the next snapshot of the pass, is detached.
C4_EvalStateDetached ==
  \A k \in 1..Len(evalLog) :
    \/ evalLog[k].op = "advance" /\ k = Len(evalLog)
    \/ ~evalLog[k].grad

\* C5: within one run best_val never decreases.
C5_BestValMonotone ==
  [][run' = run => best_val' >= best_val]_vars

\* a validation metric below best_val was observed and best_val kept
C5_Witness ==
  /\ variant = "egcno"
  /\ Len(valHist) >= 2
  /\ valHist[Len(valHist)] < best_val
  /\ pc = "epoch"

\* C6: an EvolveGCN-O run leaves the epoch loop early exactly at an epoch
\* e > 1 that strictly improves and has e - best_epoch >= patience, where
\* best_epoch is the previous improving epoch (0 if none); an improving epoch
\* failing the check sets best_epoch to e and continues; a non-improving
\* epoch never stops the run; max_epoch = 2 with patience = 100 runs both
\* epochs.
C6_EarlyStopIffPatienceCheck ==
  variant = "egcno" =>
    \* every epoch the run went past failed the check
    /\ \A e \in 0..(epoch - 1) : ~StopsAt(e)
    \* the run left the loop early only at an epoch meeting the check
    /\ EarlyStopped => (Len(valHist) = epoch + 1 /\ StopsAt(epoch))
    \* at the check best_epoch is the previous improving epoch
    /\ pc = "patience" =>
         /\ StrictImprovement(epoch)
         /\ best_epoch = PrevImproving(epoch)
    \* past an epoch, best_epoch is the last improving epoch
    /\ (pc \in {"epoch", "train", "val"} /\ epoch > 0) =>
         /\ best_epoch = PrevImproving(epoch)
         /\ best_epoch \in ImprovingEpochs
    /\ (pc \in {"run_end", "done"} /\ args.max_epoch = 2
          /\ args.patience = 100) =>
         /\ Len(valHist) = 2
         /\ ~EarlyStopped

\* the loop was left by break at epoch 2, after a non-improving epoch 1 and
\* with an epoch still to run
C6_Witness ==
  /\ variant = "egcno"
  /\ pc = "stopped"
  /\ args.patience = 2
  /\ epoch = 2
  /\ args.max_epoch = 4
  /\ 1 \notin testEpochs

\* C7 as stated: for any patience >= 1 the difference epoch - best_epoch at
\* the patience check never reaches patience, the early stop is never taken
\* and every run executes exactly max_epoch epochs.
C7_EarlyStopNeverTaken ==
  variant = "egcno" =>
    /\ pc = "patience" => epoch - best_epoch < args.patience
    /\ pc # "stopped"
    /\ pc \in {"run_end", "done"} => Len(valHist) = args.max_epoch

\* C7 amended: when patience >= max_epoch the difference epoch - best_epoch
\* at the patience check (at least 1 from epoch 1 on) never reaches patience,
\* the early stop is never taken and a run that raises no error executes
\* exactly max_epoch epochs.
C7_NoEarlyStopWhenPatienceCoversRun ==
  (variant = "egcno" /\ args.patience >= args.max_epoch) =>
    /\ pc = "patience" =>
         /\ epoch - best_epoch < args.patience
         /\ (epoch >= 1 => epoch - best_epoch >= 1)
    /\ pc # "stopped"
    /\ pc \in {"run_end", "done"} => Len(valHist) = args.max_epoch

\* the patience check evaluated at an epoch > 1 under such a patience
C7_Witness ==
  /\ variant = "egcno"
  /\ args.patience >= args.max_epoch
  /\ pc = "patience"
  /\ epoch = 2

\* C8: a split carrying edge_attr raises the not-implemented error before
\* the encoder is advanced with, or a query scored on, any snapshot of that
\* split, and no epoch processing the split completes without the error.
C8_FailFastOnEdgeAttr ==
  /\ train_data.edge_attr => trainLog = << >>
  /\ \A k \in 1..Len(evalLog) : ~split_data(evalLog[k].split).edge_attr
  /\ val_data.edge_attr => ~ValPassDone
  /\ (variant = "egcno" /\ test_data.edge_attr) => ~TestPassDone

\* C9: in both training loops the positives scored at step t are the edges
\* of snapshot t.
C9_ScoresOwnSnapshot ==
  \A k \in 1..Len(trainLog) : trainLog[k].scored = trainLog[k].t

\* ------------------------------------------------- evaluation order
\* the state a pass starts from: the last training output for validation,
\* the last validation output for the test pass
CarriedIn(split) ==
  IF split = "val"
    THEN << "train", IF train_data.time_length = 1
                       THEN 0 ELSE train_data.time_length - 2 >>
    ELSE << "val", ts_min_val + val_data.n - 1 >>

PassSplit == IF pc = "test" THEN "test" ELSE "val"

\* score snapshot i of the pass with the state carried in, then advance the
\* encoder with that snapshot's edges
ScoreThenAdvance(split) ==
  \A k \in 1..Len(evalLog) :
    LET i == (k - 1) \div 2
        t == ts_min(split) + i
    IN /\ evalLog[k].split = split
       /\ evalLog[k].t = t
       /\ IF k % 2 = 1
            THEN /\ evalLog[k].op = "score"
                 /\ evalLog[k].src =
                      (IF i = 0 THEN CarriedIn(split) ELSE << split, t - 1 >>)
            ELSE /\ evalLog[k].op = "advance"
                 /\ evalLog[k].fed = t

\* GC-LSTM: past the first snapshot, advance the encoder with the previous
\* snapshot's edges, then score
AdvancePrevThenScore ==
  \A k \in 1..Len(evalLog) :
    LET i == k \div 2
        t == ts_min_val + i
    IN /\ evalLog[k].split = "val"
       /\ evalLog[k].t = t
       /\ IF k % 2 = 1
            THEN /\ evalLog[k].op = "score"
                 /\ evalLog[k].src =
                      (IF i = 0 THEN CarriedIn("val") ELSE << "val", t - 1 >>)
            ELSE /\ evalLog[k].op = "advance"
                 /\ evalLog[k].fed = t - 1

\* C10 as stated: in every validation pass of both orchestrators and every
\* test pass, each snapshot is scored with the state carried in and then the
\* encoder is advanced once with the snapshot's own edges, for every
\* snapshot of the split.
C10_ScoreThenAdvanceEverywhere ==
  (pc \in {"val", "test"} /\ raised = "none") =>
    /\ ScoreThenAdvance(PassSplit)
    /\ Len(evalLog) = 2 * snapshot_idx

\* C10 amended: the order holds in the EvolveGCN-O validation and test
\* passes; the GC-LSTM validation pass advances the encoder before scoring
\* snapshot t, with the edges of snapshot t-1, for every snapshot but the
\* first, so the last snapshot's edges never advance the state.
C10_EvalOrderPerOrchestrator ==
  (pc \in {"val", "test"} /\ raised = "none") =>
    IF variant = "egcno"
      THEN /\ ScoreThenAdvance(PassSplit)
           /\ Len(evalLog) = 2 * snapshot_idx
      ELSE /\ AdvancePrevThenScore
           /\ Len(evalLog) = (IF snapshot_idx = 0 THEN 0
                                                 ELSE 2 * snapshot_idx - 1)

\* a completed EvolveGCN-O test pass over two snapshots
C10_Witness ==
  /\ variant = "egcno"
  /\ TestPassDone
  /\ test_data.n = 2
  /\ Len(evalLog) = 4

\* ------------------------------------------------- evaluation queries
\* the positives of the first k snapshots of a split, as the loader gives
\* them: (row0[i], row1[i]) at the snapshot's key
PositiveEdges(split, k) ==
  UNION {{[src |-> PosIndex(split, j)[1][i], dst |-> PosIndex(split, j)[2][i],
           t |-> ts_min(split) + j] : i \in 1..Len(PosIndex(split, j)[1])}
         : j \in 0..(k - 1)}

\* C11: in an evaluation pass of either orchestrator over 2 x N arrays, the
\* sampler is queried and the evaluator invoked once per positive edge i with
\* (src, dst) = (row0[i], row1[i]), and the result list has one entry per
\* positive edge of the split so far, keyed 0 .. k-1 without gaps.
C11_OneQueryPerPositiveEdge ==
  /\ raised # "index"
  /\ (pc \in {"val", "test"} /\ raised = "none") =>
       /\ {[src |-> e.src, dst |-> e.dst, t |-> e.t] : e \in perf_list}
            = PositiveEdges(PassSplit, snapshot_idx)
       /\ perf_idx = Cardinality(PositiveEdges(PassSplit, snapshot_idx))
       /\ Cardinality(perf_list) = perf_idx
       /\ {e.idx : e \in perf_list} = 0..(perf_idx - 1)

\* the same for the EvolveGCN-O passes alone
C11_EgcnoOneQueryPerPositiveEdge ==
  variant = "egcno" => C11_OneQueryPerPositiveEdge

\* ------------------------------------------------------- run record
\* an epoch boundary of an EvolveGCN-O run, or its end
AtBoundary ==
  /\ variant = "egcno"
  /\ pc \in {"epoch", "stopped", "run_end", "done"}

\* C12: the run record starts a run as (0, 0, 0); at every epoch boundary
\* and at the end of the run it is still that triple, or its three fields
\* come from the most recent strictly improving epoch: best_epoch is that
\* epoch, best_val its validation metric (the maximum of the run so far)
\* and best_test the test metric computed in it. Non-improving epochs and
\* the early stop keep this.
C12_RunRecordConsistent ==
  AtBoundary =>
    IF valHist = << >>
      THEN /\ best_val = 0
           /\ best_test = 0
           /\ best_epoch = 0
           /\ lastTest = NoTest
      ELSE LET e == SetMax(ImprovingEpochs)
           IN /\ best_epoch = e
              /\ best_val = valHist[e + 1]
              /\ \A k \in 1..Len(valHist) : valHist[k] <= best_val
              /\ lastTest.epoch = e
              /\ best_test = lastTest.metric
              /\ best_test \in Metrics

\* a boundary after a non-improving epoch 2 that followed an improving
\* epoch 1, in a second run
C12_Witness ==
  /\ AtBoundary
  /\ pc = "epoch"
  /\ run = 1
  /\ epoch = 3
  /\ best_epoch = 1
  /\ best_val = 2
  /\ valHist[3] <= 2
  /\ lastTest.epoch = 1

====
